---- MODULE Spec2Model ----
(***************************************************************************)
(* Model of the template path resolution engine of tk-core                 *)
(* (python/tank/api.py): Tank.template_from_path, Tank.paths_from_template *)
(* and Tank.abstract_paths_from_template, over a small key registry, a    *)
(* small set of loaded templates and a bounded file system; and of the     *)
(* git descriptor (python/tank/deploy/git_descriptor.py), the hook class   *)
(* cache (python/tank/hook.py), the Tank.shotgun property and the core     *)
(* upgrade script (_core_upgrader.py), each with a specification of its    *)
(* own.                                                                    *)
(*                                                                         *)
(* A path is a sequence of tokens (strings): the separators "/" and ".",   *)
(* literal words and rendered key values.  A glob pattern is a path in     *)
(* which the token "*" may occur.                                          *)
(***************************************************************************)
EXTENDS Integers, Sequences, FiniteSets, TLC

VARIABLES
  disk,       \* the paths that exist under the project root
  call,       \* the call in progress
  ret,        \* what the call in progress returns or raises
  templates,  \* self.templates: the names of the loaded templates
  config,     \* the templates file of the pipeline configuration
  skip_list,  \* a list object the caller keeps and passes as skip_keys
  prev,       \* the last abstract_paths_from_template call that returned
  git,        \* a TankGitDescriptor, its repositories and its last call
  hooks,      \* _HOOKS_CACHE of hook.py and the last hook call
  sg,         \* Tank.__sg and the threads reading Tank.shotgun
  install     \* the install root that upgrade_tank works on

vars == <<disk, call, ret, templates, config, skip_list, prev, git, hooks, sg, install>>

\* the state outside the Tank instance and its project root
components == <<git, hooks, sg, install>>

\* what a call with a fresh skip_keys argument leaves alone
session == <<templates, config, skip_list, prev, components>>

\* the Tank instance, its project root and the call made on it
tank == <<disk, call, ret, templates, config, skip_list, prev>>

(***************************************************************************)
(* Bounds                                                                  *)
(***************************************************************************)
\* frames 1..MaxFrame of one image sequence can be on disk
MaxFrame == 3

(***************************************************************************)
(* Values and tokens                                                       *)
(***************************************************************************)
\* a field value is a string or an integer
StrVal(s) == [t |-> "str", s |-> s, n |-> 0]
IntVal(n) == [t |-> "int", s |-> "", n |-> n]

WILDCARD == "*"
SEP == "/"

Digit == <<"0", "1", "2", "3", "4", "5", "6", "7", "8", "9">>

RECURSIVE IntToStr(_)
IntToStr(n) == IF n < 10 THEN Digit[n + 1]
               ELSE IntToStr(n \div 10) \o Digit[(n % 10) + 1]

RECURSIVE ZeroPad(_, _)
ZeroPad(s, w) == IF Len(s) >= w THEN s ELSE ZeroPad("0" \o s, w)

\* largest integer the parser of a sequence-number token is tried with
MaxParse == MaxFrame + 1

(***************************************************************************)
(* Key registry                                                            *)
(***************************************************************************)
\* width of the sequence-number key
FrameWidth == 4

KeyNames == {"Sequence", "Shot", "name", "eye", "frame"}

Keys ==
  [k \in KeyNames |->
     CASE k = "frame" -> [kind |-> "sequence", is_abstract |-> TRUE,
                          default |-> "%04d", choices |-> {}]
       [] k = "eye"   -> [kind |-> "choice", is_abstract |-> TRUE,
                          default |-> "%V", choices |-> {"left", "right"}]
       [] OTHER       -> [kind |-> "string", is_abstract |-> FALSE,
                          default |-> "", choices |-> {}]]

HasDefault(k) == Keys[k].default # ""

\* the separators: tokens no key parses a value from
Reserved == {SEP, "."}

\* Key.render(value) -> token; "" stands for InvalidValue
StrFromValue(k, v, ignore_type) ==
  IF ignore_type
    THEN IF v.t = "str" THEN v.s ELSE IntToStr(v.n)
    ELSE CASE Keys[k].kind = "sequence" ->
                IF v.t = "int" /\ v.n >= 0
                  THEN ZeroPad(IntToStr(v.n), FrameWidth) ELSE ""
           [] Keys[k].kind = "choice" ->
                IF v.t = "str" /\ v.s \in Keys[k].choices THEN v.s ELSE ""
           [] OTHER ->
                IF v.t = "str" THEN v.s ELSE ""

\* Key.parse(token) -> value; the set is empty on ParseMismatch
ValuesFromStr(k, tok) ==
  CASE Keys[k].kind = "sequence" ->
         {IntVal(n) : n \in {m \in 0..MaxParse :
                            ZeroPad(IntToStr(m), FrameWidth) = tok}}
    [] Keys[k].kind = "choice" ->
         IF tok \in Keys[k].choices THEN {StrVal(tok)} ELSE {}
    [] OTHER ->
         IF tok \notin Reserved THEN {StrVal(tok)} ELSE {}

ValueFromStr(k, tok) == CHOOSE v \in ValuesFromStr(k, tok) : TRUE

(***************************************************************************)
(* Templates                                                               *)
(***************************************************************************)
L(s) == [k |-> "lit", v |-> s]
K(s) == [k |-> "key", v |-> s]

\* the project root every template definition is relative to
Prefix == <<SEP, "proj">>

\* definition variations of each loaded template, most inclusive first
TemplateDefs ==
  [render |->
     << <<K("Sequence"), L(SEP), K("Shot"), L(SEP), L("render"), L(SEP),
          K("Shot"), L("."), K("frame"), L("."), L("exr")>> >>,
   render_alt |->
     << <<K("Sequence"), L(SEP), K("Shot"), L(SEP), L("render"), L(SEP),
          K("Shot"), L("."), K("frame"), L("."), L("exr")>> >>,
   publish |->
     << <<K("Sequence"), L(SEP), K("Shot"), L(SEP), L("render"), L(SEP),
          K("name"), L("."), K("frame"), L("."), L("exr")>> >>,
   work |->
     << <<K("Shot"), L(SEP), K("name"), L("."), K("eye"), L("."), L("mov")>>,
        <<K("Shot"), L(SEP), K("name"), L("."), L("mov")>> >>,
   shot |->
     << <<K("Shot"), L("."), K("name")>>,
        <<K("Shot")>> >>,
   stereo |->
     << <<K("Shot"), L(SEP), L("out"), L("."), K("name"), L("."), K("eye"),
          L("."), L("jpg")>>,
        <<K("Shot"), L(SEP), L("out"), L("."), L("jpg")>> >>]

TemplateNames == DOMAIN TemplateDefs

Template(nm) == [name |-> nm, defs |-> TemplateDefs[nm]]

\* template.parent of a root-level template
NoTemplate == [name |-> "None", defs |-> <<>>]

Range(s) == {s[i] : i \in DOMAIN s}

KeysOfDef(def) == {def[i].v : i \in {j \in DOMAIN def : def[j].k = "key"}}

\* template._keys: one key-set per definition variation
KeySets(t) == [i \in DOMAIN t.defs |-> KeysOfDef(t.defs[i])]

\* template.keys: the keys of the most inclusive variation
TemplateKeys(t) == KeySets(t)[1]

\* the keys of the shortest key-set: the keys no variation leaves out
RequiredKeys(t) ==
  {k \in TemplateKeys(t) : \A i \in DOMAIN t.defs : k \in KeySets(t)[i]}

\* os.path.dirname of a definition
RECURSIVE DirName(_)
DirName(def) ==
  IF def = <<>> THEN <<>>
  ELSE IF def[Len(def)] = L(SEP) THEN SubSeq(def, 1, Len(def) - 1)
  ELSE DirName(SubSeq(def, 1, Len(def) - 1))

RECURSIVE Dedupe(_)
Dedupe(s) ==
  IF s = <<>> THEN <<>>
  ELSE LET rest == Dedupe(SubSeq(s, 1, Len(s) - 1))
       IN IF s[Len(s)] \in Range(rest) THEN rest
          ELSE Append(rest, s[Len(s)])

\* template.parent
Parent(t) ==
  IF DirName(t.defs[1]) = <<>> THEN NoTemplate
  ELSE [name |-> t.name \o "/..",
        defs |-> Dedupe([i \in DOMAIN t.defs |-> DirName(t.defs[i])])]

(***************************************************************************)
(* Fields                                                                  *)
(***************************************************************************)
NoFields == [k \in {} |-> StrVal("")]

\* dict with one more entry
Put(f, k, v) == [x \in (DOMAIN f) \cup {k} |-> IF x = k THEN v ELSE f[x]]

\* dict without some entries
Drop(f, ks) == [x \in (DOMAIN f) \ ks |-> f[x]]

\* a key with a default value counts as missing all the same
MissingKeysOfStrict(fields, keys, skip_defaults) ==
  {k \in keys : k \notin DOMAIN fields}

\* template._missing_keys(fields, keys, skip_defaults)
MissingKeysOf(fields, keys, skip_defaults) ==
  {k \in keys : /\ k \notin DOMAIN fields
                /\ ~(skip_defaults /\ HasDefault(k))}

\* template.missing_keys(fields): against the shortest key-set
MissingKeys(t, fields) == MissingKeysOf(fields, RequiredKeys(t), FALSE)

(***************************************************************************)
(* Rendering: template._apply_fields(fields, ignore_types)                 *)
(***************************************************************************)
\* index of the first key-set with nothing missing, 0 if there is none
SelectKeySet(t, fields) ==
  LET ok == {i \in DOMAIN t.defs :
               MissingKeysOf(fields, KeySets(t)[i], TRUE) = {}}
  IN IF ok = {} THEN 0 ELSE CHOOSE i \in ok : \A j \in ok : i <= j

RenderKey(k, fields, ignore_types) ==
  IF k \in DOMAIN fields
    THEN StrFromValue(k, fields[k], k \in ignore_types)
    ELSE Keys[k].default

RenderDef(def, fields, ignore_types) ==
  [i \in DOMAIN def |->
     IF def[i].k = "lit" THEN def[i].v
     ELSE RenderKey(def[i].v, fields, ignore_types)]

Err(kind) == [ok |-> FALSE, path |-> <<>>, err |-> kind]
Ok(p) == [ok |-> TRUE, path |-> p, err |-> ""]

ApplyFieldsIgnoring(t, fields, ignore_types) ==
  LET i == SelectKeySet(t, fields)
  IN IF i = 0 THEN Err("MissingRequiredKey")
     ELSE LET toks == RenderDef(t.defs[i], fields, ignore_types)
          IN IF "" \in Range(toks) THEN Err("InvalidValue")
             ELSE Ok(Prefix \o <<SEP>> \o toks)

\* template.apply_fields(fields)
ApplyFields(t, fields) == ApplyFieldsIgnoring(t, fields, {})

(***************************************************************************)
(* Matching: template.validate(path), template.get_fields(path)            *)
(***************************************************************************)
HasPrefix(path) ==
  /\ Len(path) > Len(Prefix) + 1
  /\ SubSeq(path, 1, Len(Prefix) + 1) = Prefix \o <<SEP>>

Rel(path) == SubSeq(path, Len(Prefix) + 2, Len(path))

MatchDef(def, rel) ==
  /\ Len(def) = Len(rel)
  /\ \A i \in DOMAIN def :
       IF def[i].k = "lit" THEN rel[i] = def[i].v
       ELSE /\ ValuesFromStr(def[i].v, rel[i]) # {}
            /\ \A j \in DOMAIN def : def[j] = def[i] => rel[j] = rel[i]

\* index of the first variation that parses the path, 0 on NoMatch
MatchIndex(t, path) ==
  LET ok == {i \in DOMAIN t.defs :
               HasPrefix(path) /\ MatchDef(t.defs[i], Rel(path))}
  IN IF ok = {} THEN 0 ELSE CHOOSE i \in ok : \A j \in ok : i <= j

Validate(t, path) == MatchIndex(t, path) # 0

\* defined when Validate(t, path)
GetFields(t, path) ==
  LET def == t.defs[MatchIndex(t, path)]
      rel == Rel(path)
  IN [k \in KeysOfDef(def) |->
        ValueFromStr(k, rel[CHOOSE i \in DOMAIN def : def[i] = K(k)])]

(***************************************************************************)
(* File system                                                             *)
(***************************************************************************)
Abs(rel) == Prefix \o <<SEP>> \o rel

\* frame n of the image sequence of the render template
FrameFile(n) ==
  Abs(<<"seq01", SEP, "shot010", SEP, "render", SEP,
        "shot010", ".", ZeroPad(IntToStr(n), FrameWidth), ".", "exr">>)

\* the files that can be created on disk
DiskFiles ==
  {FrameFile(n) : n \in 1..MaxFrame} \cup
  { Abs(<<"seq01", SEP, "shot020", SEP, "render", SEP,
          "shot020", ".", "0001", ".", "exr">>),
    Abs(<<"seq01", SEP, "shot010", SEP, "render", SEP,
          "shot010", ".", "1", ".", "exr">>),
    Abs(<<"shot010", SEP, "comp", ".", "left", ".", "mov">>),
    Abs(<<"shot010", SEP, "comp", ".", "right", ".", "mov">>),
    Abs(<<"shot010", SEP, "comp", ".", "mov">>),
    Abs(<<"shot010", ".", "v1">>),
    Abs(<<"shot010", SEP, "out", ".", "jpg">>) }

\* os.path.dirname of a path; <<>> above the project root
RECURSIVE DirOf(_)
DirOf(p) ==
  IF p = <<>> THEN <<>>
  ELSE IF p[Len(p)] = SEP THEN SubSeq(p, 1, Len(p) - 1)
  ELSE DirOf(SubSeq(p, 1, Len(p) - 1))

RECURSIVE Ancestors(_)
Ancestors(p) ==
  IF Len(DirOf(p)) <= Len(Prefix) THEN {}
  ELSE {DirOf(p)} \cup Ancestors(DirOf(p))

\* every file or directory there can be under the project root
AllPaths == DiskFiles \cup UNION {Ancestors(p) : p \in DiskFiles}

\* fnmatch of one glob pattern against one path, token by token: "*"
\* stands for any run of tokens inside one path component, and does not
\* match a component that starts with "."
RECURSIVE FnMatch(_, _, _, _)
FnMatch(pat, i, path, j) ==
  IF i > Len(pat) THEN j > Len(path)
  ELSE IF pat[i] = WILDCARD
    THEN /\ ~(/\ (i = 1 \/ pat[i - 1] = SEP)
              /\ (j = 1 \/ path[j - 1] = SEP)
              /\ j <= Len(path) /\ path[j] = ".")
         /\ \/ FnMatch(pat, i + 1, path, j)
            \/ /\ j <= Len(path)
               /\ path[j] # SEP
               /\ FnMatch(pat, i, path, j + 1)
    ELSE /\ j <= Len(path)
         /\ path[j] = pat[i]
         /\ FnMatch(pat, i + 1, path, j + 1)

\* glob.iglob(glob_str) on the file system d
Glob(d, glob_str) == {p \in d : FnMatch(glob_str, 1, p, 1)}

(***************************************************************************)
(* Tank.template_from_path(path)                                           *)
(***************************************************************************)
\* the templates of self.templates that validate the path
Matched(path) == {nm \in templates : Validate(Template(nm), path)}

\* returns the first match instead of reporting the ambiguity
TemplateFromPathFirst(path) ==
  LET matched == Matched(path)
  IN IF Cardinality(matched) = 0
       THEN [raised |-> FALSE, template |-> "None", named |-> {}]
     ELSE [raised |-> FALSE,
           template |-> CHOOSE nm \in matched : TRUE, named |-> {}]

\* treats every match as an ambiguity
TemplateFromPathStrict(path) ==
  LET matched == Matched(path)
  IN IF Cardinality(matched) = 0
       THEN [raised |-> FALSE, template |-> "None", named |-> {}]
     ELSE [raised |-> TRUE, template |-> "None", named |-> matched]

TemplateFromPath(path) ==
  LET matched == Matched(path)
  IN IF Cardinality(matched) = 0
       THEN [raised |-> FALSE, template |-> "None", named |-> {}]
     ELSE IF Cardinality(matched) = 1
       THEN [raised |-> FALSE,
             template |-> CHOOSE nm \in matched : TRUE, named |-> {}]
     ELSE [raised |-> TRUE, template |-> "None", named |-> matched]

(***************************************************************************)
(* Tank.paths_from_template(template, fields, skip_keys,                   *)
(*                          skip_missing_optional_keys)                    *)
(***************************************************************************)
\* the skip_keys argument: None, one key name, or a list of key names
NoSkip == [kind |-> "none", names |-> {}]
SkipStr(k) == [kind |-> "str", names |-> {k}]
SkipList(ks) == [kind |-> "list", names |-> ks]

Star == StrVal(WILDCARD)

\* no "*" is stored
StarredNone(f, ks) == f

\* dict with "*" stored under every key of ks
Starred(f, ks) ==
  [x \in (DOMAIN f) \cup ks |-> IF x \in ks THEN Star ELSE f[x]]

\* local_fields before the missing keys are added
LocalFields(fields, skip_keys) == Drop(fields, skip_keys)

\* the missing required keys are not appended
SkipKeysAfterNoAppend(t, fields, skip_keys) == skip_keys

\* skip_keys after the missing required keys were appended
SkipKeysAfter(t, fields, skip_keys) ==
  skip_keys \cup MissingKeys(t, LocalFields(fields, skip_keys))

\* local_fields after the missing required keys were wildcarded
LocalFieldsAfter(t, fields, skip_keys) ==
  Starred(LocalFields(fields, skip_keys),
          MissingKeys(t, LocalFields(fields, skip_keys)))

\* current_skip_keys before the missing optional keys are added
CurrentSkipKeys(skip_keys, keys) == skip_keys \cap keys

\* missing_optional_keys of one key-set
MissingOptionalKeys(local_fields, skip_keys, keys) ==
  MissingKeysOf(Starred(local_fields, CurrentSkipKeys(skip_keys, keys)),
                keys, FALSE)

\* the key-set is searched whatever the flag says
FeasibleAlways(missing_optional_keys, skip_missing_optional_keys) == TRUE

\* whether the loop goes on to build the glob of a key-set
Feasible(missing_optional_keys, skip_missing_optional_keys) ==
  missing_optional_keys = {} \/ skip_missing_optional_keys

\* the glob of one key-set, or the mark of a key-set that is skipped
KeySetGlob(t, keys, missing_optional_keys, feasible, current_skip_keys, current_local_fields) ==
  [keys |-> keys,
   missing |-> missing_optional_keys,
   feasible |-> feasible,
   fields |-> current_local_fields,
   skip |-> current_skip_keys,
   glob |-> IF feasible
              THEN ApplyFieldsIgnoring(t, current_local_fields,
                                       current_skip_keys)
              ELSE Err("")]

\* the loop body for one key-set, up to its glob
KeySetFields(t, local_fields, skip_missing_optional_keys, keys, current_skip_keys, missing_optional_keys) ==
  KeySetGlob(t, keys, missing_optional_keys,
             Feasible(missing_optional_keys, skip_missing_optional_keys),
             current_skip_keys \cup missing_optional_keys,
             Starred(local_fields,
                     current_skip_keys \cup missing_optional_keys))

KeySetStep(t, local_fields, skip_keys, skip_missing_optional_keys, i) ==
  KeySetFields(t, local_fields, skip_missing_optional_keys, KeySets(t)[i],
               CurrentSkipKeys(skip_keys, KeySets(t)[i]),
               MissingOptionalKeys(local_fields, skip_keys, KeySets(t)[i]))

\* the raw glob matches, not validated
FoundFilesRaw(t, d, glob_str) == Glob(d, glob_str)

\* the files one glob contributes to found_files
FoundFiles(t, d, glob_str) == {f \in Glob(d, glob_str) : Validate(t, f)}

\* a key-set that is left out for its missing optional keys counts as a
\* failure as well
FailingInfeasible(steps) == {i \in DOMAIN steps : ~steps[i].glob.ok}

\* the key-sets whose glob cannot be rendered
Failing(steps) ==
  {i \in DOMAIN steps : steps[i].feasible /\ ~steps[i].glob.ok}

\* the key-set at which the loop raises, Len(steps) + 1 if it does not
Stop(steps, failing) ==
  IF failing = {} THEN Len(steps) + 1
  ELSE CHOOSE i \in failing : \A j \in failing : i <= j

\* no glob string is remembered: every glob that is built is run
StatusNoDedupe(steps, stop) ==
  [i \in DOMAIN steps |->
     IF i > stop THEN "not reached"
     ELSE IF i = stop THEN "raised"
     ELSE IF ~steps[i].feasible THEN "skipped"
     ELSE "searched"]

\* what the loop does with each key-set
Status(steps, stop) ==
  [i \in DOMAIN steps |->
     IF i > stop THEN "not reached"
     ELSE IF i = stop THEN "raised"
     ELSE IF ~steps[i].feasible THEN "skipped"
     ELSE IF \E j \in 1..(i - 1) :
               steps[j].feasible /\ steps[j].glob = steps[i].glob
       THEN "duplicate"
     ELSE "searched"]

\* the globs that are run and the files they contribute
Search(t, d, skip_arg, skip_keys, steps, stop, status) ==
  [raised |-> stop <= Len(steps),
   errs |-> {steps[i].glob.err : i \in {stop} \cap DOMAIN steps},
   paths |-> IF stop <= Len(steps) THEN {}
             ELSE UNION {FoundFiles(t, d, steps[i].glob.path) :
                           i \in {j \in DOMAIN steps :
                                    status[j] = "searched"}},
   steps |-> steps,
   status |-> status,
   skip_keys |-> skip_keys,
   \* the caller's list object, which is skip_keys when it is not empty
   list_after |-> IF skip_arg.kind = "list" /\ skip_arg.names # {}
                    THEN skip_keys ELSE skip_arg.names]

SearchFrom(t, d, skip_arg, skip_keys, steps, stop) ==
  Search(t, d, skip_arg, skip_keys, steps, stop, Status(steps, stop))

SearchSteps(t, d, skip_arg, skip_keys, steps) ==
  SearchFrom(t, d, skip_arg, skip_keys, steps, Stop(steps, Failing(steps)))

SearchKeySets(t, d, skip_arg, skip_missing_optional_keys, skip_keys, local_fields) ==
  SearchSteps(t, d, skip_arg, skip_keys,
              [i \in DOMAIN t.defs |->
                 KeySetStep(t, local_fields, skip_keys,
                            skip_missing_optional_keys, i)])

\* a skip key that is no key of the template is refused before the search
PathsFromTemplateChecked(t, fields, skip_arg, skip_missing_optional_keys, d) ==
  IF skip_arg.names \subseteq TemplateKeys(t)
    THEN SearchKeySets(t, d, skip_arg, skip_missing_optional_keys,
                       SkipKeysAfter(t, fields, skip_arg.names),
                       LocalFieldsAfter(t, fields, skip_arg.names))
    ELSE [raised |-> TRUE, errs |-> {"ConfigurationError"}, paths |-> {},
          steps |-> <<>>, status |-> <<>>, skip_keys |-> skip_arg.names,
          list_after |-> skip_arg.names]

PathsFromTemplate(t, fields, skip_arg, skip_missing_optional_keys, d) ==
  SearchKeySets(t, d, skip_arg, skip_missing_optional_keys,
                SkipKeysAfter(t, fields, skip_arg.names),
                LocalFieldsAfter(t, fields, skip_arg.names))

(***************************************************************************)
(* Tank.abstract_paths_from_template(template, fields)                     *)
(***************************************************************************)
LeafKeys(t) == TemplateKeys(t) \ TemplateKeys(Parent(t))

AbstractKeyNames(t) == {k \in TemplateKeys(t) : Keys[k].is_abstract}

\* the values in fields do not count
SkipLeafLevelAbstractOnly(t, fields) ==
  \A k \in LeafKeys(t) : k \in AbstractKeyNames(t)

SkipLeafLevel(t, fields) ==
  \A k \in LeafKeys(t) : k \in AbstractKeyNames(t) \/ k \in DOMAIN fields

SearchTemplate(t, fields) ==
  IF SkipLeafLevel(t, fields) THEN Parent(t) ELSE t

\* pass 1 left out: the parsed values of the abstract keys stay
ZeroAbstractKeep(st, cur_fields) == [ok |-> TRUE, fields |-> cur_fields]

\* pass 1: del cur_fields[k] for every abstract key of the search template
ZeroAbstract(st, cur_fields) ==
  IF AbstractKeyNames(st) \subseteq DOMAIN cur_fields
    THEN [ok |-> TRUE, fields |-> Drop(cur_fields, AbstractKeyNames(st))]
    ELSE [ok |-> FALSE, fields |-> cur_fields]

\* pass 2 left out
AddBackNone(cur_fields, fields) == cur_fields

\* pass 2: the fields of the caller that cur_fields does not hold
AddBack(cur_fields, fields) ==
  [k \in (DOMAIN cur_fields) \cup (DOMAIN fields) |->
     IF k \in DOMAIN cur_fields THEN cur_fields[k] ELSE fields[k]]

\* the final rendering done with the template the search ran at
RenderAbstractAtSearchLevel(t, st, cur_fields) == ApplyFields(st, cur_fields)

\* the final rendering of one found file
RenderAbstract(t, st, cur_fields) == ApplyFields(t, cur_fields)

\* the loop body for one found file, after get_fields
AbstractPathOf(t, st, fields, zeroed) ==
  IF ~zeroed.ok THEN Err("KeyError")
  ELSE RenderAbstract(t, st, AddBack(zeroed.fields, fields))

\* the loop body for one found file; get_fields raises on a path that the
\* search template does not parse
AbstractPath(t, st, fields, found_file) ==
  IF ~Validate(st, found_file) THEN Err("TankError")
  ELSE AbstractPathOf(t, st, fields,
                      ZeroAbstract(st, GetFields(st, found_file)))

\* the result of the loop over the found files
Collapsed(level, found, outs) ==
  IF \E o \in outs : ~o.ok
    THEN [raised |-> TRUE, errs |-> {o.err : o \in {x \in outs : ~x.ok}},
          paths |-> {}, level |-> level, found |-> found, searched |-> TRUE]
    ELSE [raised |-> FALSE, errs |-> {}, paths |-> {o.path : o \in outs},
          level |-> level, found |-> found, searched |-> TRUE]

\* the loop over the files the search found
Collapse(t, st, fields, level, search) ==
  IF search.raised
    THEN [raised |-> TRUE, errs |-> search.errs, paths |-> {},
          level |-> level, found |-> {}, searched |-> TRUE]
    ELSE Collapsed(level, search.paths,
                   {AbstractPath(t, st, fields, f) : f \in search.paths})

\* the search at the chosen level and the loop over its result
SearchAndCollapse(t, st, fields, d) ==
  Collapse(t, st, fields, IF st = t THEN "template" ELSE "parent",
           PathsFromTemplate(st, fields, NoSkip, FALSE, d))

\* a template without a parent is searched at its own level
AbstractPathsFromTemplateFallback(t, fields, d) ==
  SearchAndCollapse(t, IF Parent(t) = NoTemplate THEN t
                       ELSE SearchTemplate(t, fields), fields, d)

\* the paths an earlier call returned are kept and not returned again
AbstractPathsFromTemplateNew(t, fields, d) ==
  IF Parent(t) = NoTemplate
    THEN [raised |-> TRUE, errs |-> {"AttributeError"}, paths |-> {},
          level |-> "None", found |-> {}, searched |-> FALSE]
    ELSE [SearchAndCollapse(t, SearchTemplate(t, fields), fields, d)
            EXCEPT !.paths = IF prev.op = "none" THEN @
                             ELSE @ \ prev.ret.paths]

AbstractPathsFromTemplate(t, fields, d) ==
  IF Parent(t) = NoTemplate
    THEN [raised |-> TRUE, errs |-> {"AttributeError"}, paths |-> {},
          level |-> "None", found |-> {}, searched |-> FALSE]
    ELSE SearchAndCollapse(t, SearchTemplate(t, fields), fields, d)

(***************************************************************************)
(* Tank.reload_templates()                                                 *)
(***************************************************************************)
\* read_templates(pipeline_configuration): the templates of a readable
\* templates file, TankError for one that cannot be read
ReadTemplates(cfg) ==
  IF cfg.readable THEN [raised |-> FALSE, templates |-> cfg.names]
  ELSE [raised |-> TRUE, templates |-> {}]

\* the outcome of reload_templates once read_templates has ended
Reloaded(loaded, read) ==
  IF read.raised
    THEN [raised |-> TRUE, errs |-> {"TankError"}, templates |-> loaded]
    ELSE [raised |-> FALSE, errs |-> {}, templates |-> read.templates]

\* self.templates is emptied before the templates are read
ReloadTemplatesClearing(loaded, cfg) ==
  Reloaded({}, ReadTemplates(cfg))

\* the error and self.templates after reload_templates
ReloadTemplates(loaded, cfg) ==
  Reloaded(loaded, ReadTemplates(cfg))

(***************************************************************************)
(* Inputs                                                                  *)
(***************************************************************************)
\* at most MaxFiles files are on disk
MaxFiles == 3

\* the loaded templates the searches are called with
SearchTemplates == {"render", "work", "shot"}

\* the loaded templates abstract paths are asked for
AbstractTemplates == SearchTemplates \cup {"publish", "stereo"}

\* a name that is no key of the configuration
UnknownKey == "version"

FieldValues ==
  [k \in KeyNames |->
     CASE k = "Sequence" -> {StrVal("seq01")}
       [] k = "Shot"     -> {StrVal("shot010"), StrVal("shot020")}
       [] k = "name"     -> {StrVal("comp")}
       [] k = "eye"      -> {StrVal("left")}
       [] k = "frame"    -> {IntVal(1)}]

AllValues == UNION {FieldValues[k] : k \in KeyNames}

\* a value the sequence-number key cannot render
BadFrame == StrVal("x")

\* the field dictionaries over the keys ks: every choice of valid values,
\* and the dictionary whose only entry is an invalid frame
FieldChoices(ks) ==
  UNION {{f \in [S -> AllValues] : \A k \in S : f[k] \in FieldValues[k]} :
           S \in SUBSET ks}
  \cup {[k \in {"frame"} \cap ks |-> BadFrame]}

\* the flag is tried both ways on the templates that have optional keys
FlagChoices(nm) ==
  IF Len(TemplateDefs[nm]) > 1 THEN BOOLEAN ELSE {FALSE}

SkipChoices(ks) ==
  {NoSkip, SkipList({UnknownKey})}
    \cup {SkipList({k}) : k \in ks}
    \cup {SkipStr(k) : k \in {x \in ks : Keys[x].is_abstract}}

(***************************************************************************)
(* State machine                                                           *)
(***************************************************************************)
IdleCall == [op |-> "idle"]
NoRet == [raised |-> FALSE]
NoList == [made |-> FALSE, put |-> {}, names |-> {}]
NoPrev == [op |-> "none"]

\* the version "latest" of a descriptor that follows a branch
LATEST == <<"l", "a", "t", "e", "s", "t">>

NoGitCall == [op |-> "none", raised |-> FALSE, err |-> "", ran_pull |-> FALSE, chdir |-> FALSE, before |-> [version |-> <<>>, needs_update |-> FALSE], returned |-> [version |-> <<>>, needs_update |-> FALSE]]

\* a descriptor that follows a branch, nothing installed locally yet
NoGit == [version |-> LATEST, needs_update |-> FALSE, local |-> {}, cloned |-> FALSE, modified |-> {}, local_head |-> 0, remote_head |-> 0, last |-> NoGitCall]

NoHookCall == [op |-> "none", hook_path |-> "", parent |-> "", called_load |-> FALSE, raised |-> FALSE, err |-> "", instance |-> [id |-> 0, parent |-> "", class |-> ""], cache_before |-> {}, loaded_before |-> {}, made_before |-> 0]

\* _HOOKS_CACHE = {}: no hook was run yet
NoHooks == [cache |-> {}, loads |-> <<>>, broken |-> {}, made |-> 0, last |-> NoHookCall]

MaxThreads == 2
Threads == 1..MaxThreads

\* self.__sg = None: no thread reads Tank.shotgun
NoSg == [handle |-> 0, created |-> 0, started |-> 0, pc |-> [t \in Threads |-> "idle"], conn |-> [t \in Threads |-> 0], returned |-> {}]

\* core/info.yml: readable says that yaml loads it and finds a mapping;
\* the version string is an optional "v" and then a word or numbers with
\* dots between them
NoManifest == [readable |-> FALSE, version |-> [v |-> FALSE, word |-> "", nums |-> <<>>]]
NoUpgrade == [op |-> "none", raised |-> FALSE, migrations |-> <<>>, before |-> {}, manifest |-> NoManifest, reported |-> {}, removed |-> {}, installed |-> FALSE]

\* an install root with its folders and an empty core folder
NoInstall == [core |-> {}, manifest |-> NoManifest, valid |-> TRUE, backup |-> {}, last |-> NoUpgrade]

\* Tank.__init__ has read the templates; no call was made yet
Init ==
  /\ disk = {}
  /\ call = IdleCall
  /\ ret = NoRet
  /\ templates = TemplateNames
  /\ config = [readable |-> TRUE, names |-> TemplateNames]
  /\ skip_list = NoList
  /\ prev = NoPrev
  /\ git = NoGit
  /\ hooks = NoHooks
  /\ sg = NoSg
  /\ install = NoInstall

Idle == call = IdleCall

FilesOn(d) == d \cap DiskFiles

\* an external process writes a file under the project root
CreateFile(p) ==
  /\ Idle
  /\ p \in DiskFiles \ disk
  /\ Cardinality(FilesOn(disk)) < MaxFiles
  /\ disk' = disk \cup {p} \cup Ancestors(p)
  /\ UNCHANGED <<call, ret, session>>

CallTemplateFromPath(path) ==
  /\ Idle
  /\ call' = [op |-> "template_from_path", path |-> path]
  /\ ret' = TemplateFromPath(path)
  /\ UNCHANGED <<disk, session>>

CallPathsFromTemplate(nm, fields, skip_arg, smok) ==
  /\ Idle
  /\ call' = [op |-> "paths_from_template", template |-> nm,
              fields |-> fields, skip_keys |-> skip_arg,
              skip_missing_optional_keys |-> smok]
  /\ ret' = PathsFromTemplate(Template(nm), fields, skip_arg, smok, disk)
  /\ UNCHANGED <<disk, session>>

CallAbstractPathsFromTemplate(nm, fields) ==
  /\ Idle
  /\ call' = [op |-> "abstract_paths_from_template", template |-> nm,
              fields |-> fields]
  /\ ret' = AbstractPathsFromTemplate(Template(nm), fields, disk)
  /\ UNCHANGED <<disk, session>>

CallApplyFields(nm, fields) ==
  /\ Idle
  /\ call' = [op |-> "apply_fields", template |-> nm, fields |-> fields]
  /\ ret' = ApplyFields(Template(nm), fields)
  /\ UNCHANGED <<disk, session>>

\* the caller takes the result or the error
Return ==
  /\ ~Idle
  /\ call' = IdleCall
  /\ ret' = NoRet
  /\ UNCHANGED <<disk, session>>

Next ==
  \/ \E p \in DiskFiles : CreateFile(p)
  \/ \E path \in AllPaths : CallTemplateFromPath(path)
  \/ \E nm \in SearchTemplates :
       \E fields \in FieldChoices(TemplateKeys(Template(nm))) :
         \E skip_arg \in SkipChoices(TemplateKeys(Template(nm))) :
           \E smok \in FlagChoices(nm) :
             CallPathsFromTemplate(nm, fields, skip_arg, smok)
  \/ \E nm \in AbstractTemplates :
       \E fields \in FieldChoices(TemplateKeys(Template(nm))) :
         CallAbstractPathsFromTemplate(nm, fields)
  \/ \E nm \in AbstractTemplates :
       \E fields \in FieldChoices(TemplateKeys(Template(nm))) :
         CallApplyFields(nm, fields)
  \/ Return

Spec == Init /\ [][Next]_vars

(***************************************************************************)
(* The same abstract_paths_from_template call made twice                   *)
(***************************************************************************)
\* a file is written; an earlier call is marked as made on another disk
CreateFileNoted(p) ==
  /\ Idle
  /\ p \in DiskFiles \ disk
  /\ Cardinality(FilesOn(disk)) < MaxFiles
  /\ disk' = disk \cup {p} \cup Ancestors(p)
  /\ prev' = IF prev = NoPrev THEN prev ELSE [prev EXCEPT !.changed = TRUE]
  /\ UNCHANGED <<call, ret, templates, config, skip_list, components>>

CallAbstractFirst(nm, fields) ==
  /\ prev = NoPrev
  /\ CallAbstractPathsFromTemplate(nm, fields)

\* the first call returns or raises; the caller keeps what it got
ReturnRemembered ==
  /\ ~Idle
  /\ prev = NoPrev
  /\ prev' = [op |-> call.op, template |-> call.template,
              fields |-> call.fields, ret |-> ret, changed |-> FALSE]
  /\ call' = IdleCall
  /\ ret' = NoRet
  /\ UNCHANGED <<disk, templates, config, skip_list, components>>

\* the caller makes the remembered call once more
CallAbstractAgain ==
  /\ prev # NoPrev
  /\ CallAbstractPathsFromTemplate(prev.template, prev.fields)

ReturnForgetting ==
  /\ ~Idle
  /\ prev # NoPrev
  /\ prev' = NoPrev
  /\ call' = IdleCall
  /\ ret' = NoRet
  /\ UNCHANGED <<disk, templates, config, skip_list, components>>

NextTwice ==
  \/ \E p \in DiskFiles : CreateFileNoted(p)
  \/ \E nm \in AbstractTemplates :
       \E fields \in FieldChoices(TemplateKeys(Template(nm))) :
         CallAbstractFirst(nm, fields)
  \/ ReturnRemembered
  \/ CallAbstractAgain
  \/ ReturnForgetting

SpecTwice == Init /\ [][NextTwice]_vars

(***************************************************************************)
(* A caller that keeps one skip_keys list and passes it to every call      *)
(***************************************************************************)
ReuseTemplates == {"render"}

\* the caller makes a list holding one key name
MakeList(k) ==
  /\ Idle
  /\ ~skip_list.made
  /\ skip_list' = [made |-> TRUE, put |-> {k}, names |-> {k}]
  /\ UNCHANGED <<disk, call, ret, templates, config, prev, components>>

\* skip_keys is the list object of the caller: what the call appends to it
\* stays in it
CallPathsFromTemplateReusing(nm, fields, smok) ==
  /\ Idle
  /\ skip_list.made
  /\ call' = [op |-> "paths_from_template", template |-> nm,
              fields |-> fields, skip_keys |-> SkipList(skip_list.names),
              skip_missing_optional_keys |-> smok]
  /\ ret' = PathsFromTemplate(Template(nm), fields,
                              SkipList(skip_list.names), smok, disk)
  /\ skip_list' = [skip_list EXCEPT !.names = ret'.list_after]
  /\ UNCHANGED <<disk, templates, config, prev, components>>

NextReuse ==
  \/ \E p \in DiskFiles : CreateFile(p)
  \/ \E nm \in ReuseTemplates : \E k \in TemplateKeys(Template(nm)) :
       MakeList(k)
  \/ \E nm \in ReuseTemplates :
       \E fields \in FieldChoices(TemplateKeys(Template(nm))) :
         \E smok \in FlagChoices(nm) :
           CallPathsFromTemplateReusing(nm, fields, smok)
  \/ Return

SpecReuse == Init /\ [][NextReuse]_vars

(***************************************************************************)
(* The templates file is edited and the templates are reloaded             *)
(***************************************************************************)
Unreadable == [readable |-> FALSE, names |-> {}]

\* what the templates file can hold
ConfigChoices ==
  {[readable |-> TRUE, names |-> ns] :
     ns \in {TemplateNames, TemplateNames \ {"render_alt"}, {"shot"}}}
  \cup {Unreadable}

\* somebody edits the templates file of the pipeline configuration
EditConfig(cfg) ==
  /\ Idle
  /\ cfg # config
  /\ config' = cfg
  /\ UNCHANGED <<disk, call, ret, templates, skip_list, prev, components>>

CallReloadTemplates ==
  /\ Idle
  /\ call' = [op |-> "reload_templates", before |-> templates]
  /\ ret' = ReloadTemplates(templates, config)
  /\ templates' = ret'.templates
  /\ UNCHANGED <<disk, config, skip_list, prev, components>>

NextReload ==
  \/ \E cfg \in ConfigChoices : EditConfig(cfg)
  \/ CallReloadTemplates
  \/ \E path \in AllPaths : CallTemplateFromPath(path)
  \/ Return

SpecReload == Init /\ [][NextReload]_vars

(***************************************************************************)
(* TankGitDescriptor (python/tank/deploy/git_descriptor.py).  A string is  *)
(* a sequence of characters or of whole words; a commit is a number and    *)
(* its hash a string that starts with the digit of that number.  git.local *)
(* holds the versions whose folder exists in the local location,           *)
(* git.cloned says that the folder of version latest holds a clone,        *)
(* git.modified the modified files of that clone, local_head and           *)
(* remote_head the commits of that clone and of the branch.                *)
(***************************************************************************)
MaxCommits == 2
ShortLen == 7

Hash(n) == <<Digit[n + 1], "c", "0", "f", "f", "e", "e", "4", "2">>

\* str.strip(): the white space at both ends is removed
Strip(s) ==
  LET inked == {i \in DOMAIN s : s[i] # "\n"}
  IN IF inked = {} THEN <<>>
     ELSE SubSeq(s, CHOOSE i \in inked : \A j \in inked : i <= j,
                    CHOOSE i \in inked : \A j \in inked : i >= j)

\* str.split("\n"): the pieces between the newlines; cur is the piece
\* being read.  The empty string has one piece, the empty string.
RECURSIVE Split(_, _)
Split(s, cur) ==
  IF s = <<>> THEN <<cur>>
  ELSE IF Head(s) = "\n" THEN <<cur>> \o Split(Tail(s), <<>>)
  ELSE Split(Tail(s), Append(cur, Head(s)))

\* what "git diff --name-only" prints: one line for each modified file
RECURSIVE DiffOutput(_)
DiffOutput(m) ==
  IF m = {} THEN <<>>
  ELSE LET f == CHOOSE x \in m : TRUE IN <<f, "\n">> \o DiffOutput(m \ {f})

\* get_path() exists when the folder named after the version is in the
\* local location
ExistsLocal(g) == IF g.needs_update THEN FALSE ELSE g.version \in g.local

\* _pull_latest: pull_ok says whether "git pull" would end with status 0;
\* head is the commit of the clone after the call
PullLatest(g, pull_ok) ==
  IF g.version \notin g.local
    THEN [raised |-> TRUE, err |-> "OSError", chdir |-> FALSE, ran_pull |-> FALSE, head |-> g.local_head]
  ELSE IF ~g.cloned
    THEN [raised |-> TRUE, err |-> "CalledProcessError", chdir |-> TRUE, ran_pull |-> FALSE, head |-> g.local_head]
  ELSE LET modified_files == Split(Strip(DiffOutput(g.modified)), <<>>)
       IN IF Len(modified_files) # 0
            THEN [raised |-> TRUE, err |-> "TankError: local modifications", chdir |-> TRUE, ran_pull |-> FALSE, head |-> g.local_head]
          ELSE IF ~pull_ok
            THEN [raised |-> TRUE, err |-> "TankError: could not update", chdir |-> TRUE, ran_pull |-> TRUE, head |-> g.local_head]
          ELSE [raised |-> FALSE, err |-> "", chdir |-> TRUE, ran_pull |-> TRUE, head |-> g.remote_head]

\* the record of a call on descriptor g; p is the outcome of its pull
GitCall(op, g, raised, err, p, returned) == [op |-> op, raised |-> raised, err |-> err, ran_pull |-> p.ran_pull, chdir |-> p.chdir, before |-> [version |-> g.version, needs_update |-> g.needs_update], returned |-> returned]

\* download_local: ok says whether the git commands would end with
\* status 0.  The clone of lines 97-141 makes the target folder before
\* git runs.
DownloadLocal(g, ok) ==
  IF ExistsLocal(g)
    THEN [g EXCEPT !.last = GitCall("download_local", g, FALSE, "", NoGitCall, NoGitCall.returned)]
  ELSE IF g.needs_update
    THEN LET live == [g EXCEPT !.version = LATEST]
             p == PullLatest(live, ok)
         IN IF p.raised
              THEN [live EXCEPT !.last = GitCall("download_local", g, TRUE, p.err, p, NoGitCall.returned)]
            ELSE [g EXCEPT !.needs_update = FALSE, !.local_head = p.head,
                           !.last = GitCall("download_local", g, FALSE, "", p, NoGitCall.returned)]
  ELSE [g EXCEPT !.local = @ \cup {g.version},
                 !.cloned = IF g.version = LATEST THEN ok ELSE @,
                 !.local_head = IF g.version = LATEST /\ ok THEN g.remote_head ELSE @,
                 !.modified = IF g.version = LATEST THEN {} ELSE @,
                 !.last = GitCall("download_local", g, ~ok, IF ok THEN "" ELSE "TankError: could not clone", NoGitCall, NoGitCall.returned)]

\* find_latest_version: ok says whether the git commands would end with
\* status 0.  git_hash is what "git rev-list --max-count=1 <branch>"
\* prints in the fresh clone (line 199), current_git_hash what the same
\* command prints in the same folder (line 204); a descriptor of a tag
\* gets the latest tag of the repository.
FindLatestVersion(g, ok) ==
  IF ~ok
    THEN GitCall("find_latest_version", g, TRUE, "TankError: could not clone", NoGitCall, NoGitCall.returned)
  ELSE LET git_hash == Hash(g.remote_head)
           current_git_hash == Hash(g.remote_head)
           new_loc_dict ==
             IF g.version = LATEST
               THEN IF current_git_hash # git_hash
                      THEN [version |-> SubSeq(git_hash, 1, ShortLen), needs_update |-> TRUE]
                    ELSE [version |-> g.version, needs_update |-> FALSE]
             ELSE [version |-> <<"v", "1", ".", "0">>, needs_update |-> FALSE]
       IN GitCall("find_latest_version", g, FALSE, "", NoGitCall, new_loc_dict)

\* TankGitDescriptor.__init__ with a location that names a version and
\* may hold needs_update
Configure(version, needs_update) ==
  /\ git' = [git EXCEPT !.version = version, !.needs_update = needs_update, !.last = NoGitCall]
  /\ UNCHANGED <<tank, hooks, sg, install>>

\* a user edits a file of the clone that follows the branch
EditLocal(f) ==
  /\ git.cloned
  /\ f \notin git.modified
  /\ git' = [git EXCEPT !.modified = @ \cup {f}, !.last = NoGitCall]
  /\ UNCHANGED <<tank, hooks, sg, install>>

\* somebody pushes a commit to the branch of the remote repository
Push ==
  /\ git.remote_head < MaxCommits
  /\ git' = [git EXCEPT !.remote_head = @ + 1, !.last = NoGitCall]
  /\ UNCHANGED <<tank, hooks, sg, install>>

\* download_local makes the call with the version set to latest
CallPullLatest(ok) ==
  /\ git.version = LATEST
  /\ git' = [git EXCEPT !.local_head = PullLatest(git, ok).head,
                        !.last = GitCall("_pull_latest", git, PullLatest(git, ok).raised, PullLatest(git, ok).err, PullLatest(git, ok), NoGitCall.returned)]
  /\ UNCHANGED <<tank, hooks, sg, install>>

CallDownloadLocal(ok) ==
  /\ git' = DownloadLocal(git, ok)
  /\ UNCHANGED <<tank, hooks, sg, install>>

CallFindLatestVersion(ok) ==
  /\ git' = [git EXCEPT !.last = FindLatestVersion(git, ok)]
  /\ UNCHANGED <<tank, hooks, sg, install>>

NextGit ==
  \/ \E version \in {LATEST, <<"v", "1", ".", "0">>, SubSeq(Hash(git.local_head), 1, ShortLen)} :
       \E needs_update \in BOOLEAN : Configure(version, needs_update)
  \/ \E f \in {"app.py", "info.yml"} : EditLocal(f)
  \/ Push
  \/ \E ok \in BOOLEAN : CallPullLatest(ok)
  \/ \E ok \in BOOLEAN : CallDownloadLocal(ok)
  \/ \E ok \in BOOLEAN : CallFindLatestVersion(ok)

SpecGit == Init /\ [][NextGit]_vars

(***************************************************************************)
(* The hook class cache (python/tank/hook.py).  hooks.cache holds the hook *)
(* paths that _HOOKS_CACHE maps to a class, hooks.broken the hook files    *)
(* that loader.load_plugin cannot load, hooks.loads the paths whose load   *)
(* returned since the cache was last cleared, in the order of the loads,   *)
(* and hooks.made counts the hook instances built so far.                  *)
(***************************************************************************)
MaxInstances == 3

\* a _get_hook_class that asks the loader on every call
GetHookClassUncached(cache, hook_path, load_ok) ==
  IF load_ok
    THEN [raised |-> FALSE, called_load |-> TRUE, cache |-> cache \cup {hook_path}]
  ELSE [raised |-> TRUE, called_load |-> TRUE, cache |-> cache]

\* _get_hook_class: load_ok says whether loader.load_plugin would return
GetHookClass(cache, hook_path, load_ok) ==
  IF hook_path \notin cache
    THEN IF load_ok
           THEN [raised |-> FALSE, called_load |-> TRUE, cache |-> cache \cup {hook_path}]
         ELSE [raised |-> TRUE, called_load |-> TRUE, cache |-> cache]
  ELSE [raised |-> FALSE, called_load |-> FALSE, cache |-> cache]

\* execute_hook: c is what _get_hook_class did, exec_ok says whether
\* hook.execute would return
ExecuteHook(h, hook_path, parent, c, exec_ok) ==
  [h EXCEPT !.cache = c.cache,
            !.loads = IF c.called_load /\ ~c.raised THEN Append(@, hook_path) ELSE @,
            !.made = IF c.raised THEN @ ELSE @ + 1,
            !.last = [op |-> "execute_hook", hook_path |-> hook_path, parent |-> parent,
                      called_load |-> c.called_load,
                      raised |-> c.raised \/ ~exec_ok,
                      err |-> IF c.raised THEN "load_plugin" ELSE IF exec_ok THEN "" ELSE "execute",
                      instance |-> IF c.raised THEN NoHookCall.instance
                                   ELSE [id |-> h.made + 1, parent |-> parent, class |-> hook_path],
                      cache_before |-> h.cache,
                      loaded_before |-> Range(h.loads),
                      made_before |-> h.made]]

CallExecuteHook(hook_path, parent, exec_ok) ==
  /\ hooks.made < MaxInstances
  /\ hooks' = ExecuteHook(hooks, hook_path, parent, GetHookClass(hooks.cache, hook_path, hook_path \notin hooks.broken), exec_ok)
  /\ UNCHANGED <<tank, git, sg, install>>

ClearHooksCache ==
  /\ hooks' = [hooks EXCEPT !.cache = {}, !.loads = <<>>, !.last = [NoHookCall EXCEPT !.op = "clear_hooks_cache"]]
  /\ UNCHANGED <<tank, git, sg, install>>

\* somebody edits a hook file: it stops loading, or loads again
EditHook(hook_path) ==
  /\ hooks' = [hooks EXCEPT !.broken = IF hook_path \in @ THEN @ \ {hook_path} ELSE @ \cup {hook_path}, !.last = NoHookCall]
  /\ UNCHANGED <<tank, git, sg, install>>

NextHooks ==
  \/ \E hook_path \in {"pick_environment", "pre_publish"} :
       \E parent \in {"engine", "app"} :
         \E exec_ok \in BOOLEAN : CallExecuteHook(hook_path, parent, exec_ok)
  \/ ClearHooksCache
  \/ \E hook_path \in {"pick_environment", "pre_publish"} : EditHook(hook_path)

SpecHooks == Init /\ [][NextHooks]_vars

(***************************************************************************)
(* Tank.shotgun (python/tank/api.py, lines 106-125) read by threads that   *)
(* share one Tank instance.  sg.handle is self.__sg (0 is None), sg.pc the *)
(* line each thread is at, sg.conn the connection a thread holds between   *)
(* the call of create_sg_connection and the assignment, sg.created the     *)
(* number of connections made and sg.returned the handles the reads gave.  *)
(***************************************************************************)
MaxReads == 4

\* line 113: if self.__sg is None
Check(t) ==
  /\ sg.pc[t] = "idle"
  /\ sg.started < MaxReads
  /\ sg' = [sg EXCEPT !.started = @ + 1,
                      !.pc[t] = IF sg.handle = 0 THEN "create" ELSE "return"]
  /\ UNCHANGED <<tank, git, hooks, install>>

\* line 114, right-hand side: shotgun.create_sg_connection(); ok says
\* whether it returns
Create(t, ok) ==
  /\ sg.pc[t] = "create"
  /\ sg' = IF ok
             THEN [sg EXCEPT !.created = @ + 1, !.conn[t] = sg.created + 1, !.pc[t] = "assign"]
           ELSE [sg EXCEPT !.pc[t] = "idle"]
  /\ UNCHANGED <<tank, git, hooks, install>>

\* line 114, the assignment to self.__sg
Assign(t) ==
  /\ sg.pc[t] = "assign"
  /\ sg' = [sg EXCEPT !.handle = sg.conn[t], !.conn[t] = 0, !.pc[t] = "return"]
  /\ UNCHANGED <<tank, git, hooks, install>>

\* lines 118-125: the user agent is set if the handle has the handler,
\* and self.__sg is returned
ReturnHandle(t) ==
  /\ sg.pc[t] = "return"
  /\ sg' = [sg EXCEPT !.returned = @ \cup {sg.handle}, !.pc[t] = "idle"]
  /\ UNCHANGED <<tank, git, hooks, install>>

NextSg ==
  \/ \E t \in Threads : Check(t)
  \/ \E t \in Threads : \E ok \in BOOLEAN : Create(t, ok)
  \/ \E t \in Threads : Assign(t)
  \/ \E t \in Threads : ReturnHandle(t)

SpecSg == Init /\ [][NextSg]_vars

(***************************************************************************)
(* upgrade_tank (_core_upgrader.py).  A file is the sequence of the names  *)
(* on its path below the folder that holds it; install.core holds the      *)
(* files of <install root>/core, install.manifest what core/info.yml says  *)
(* when it is there, install.valid whether the folders that upgrade_tank   *)
(* expects exist, install.backup the files of the newest backup folder.    *)
(***************************************************************************)
MaxPatch == 17

IsUpgrade(i) == <<"info.yml">> \in i.core

\* LooseVersion(a) < LooseVersion(b) for versions made of numbers: the
\* lists of components are compared as Python compares lists
RECURSIVE LooseLess(_, _)
LooseLess(a, b) ==
  IF b = <<>> THEN FALSE
  ELSE IF a = <<>> THEN TRUE
  ELSE IF a[1] # b[1] THEN a[1] < b[1]
  ELSE LooseLess(Tail(a), Tail(b))

\* __current_version_less_than; ver is the numbers of a version such as
\* "v0.13.6".  A version that is a word is one string component, and
\* Python 2 orders every string after every number.
CurrentVersionLessThan(i, ver) ==
  IF ~IsUpgrade(i) THEN TRUE
  ELSE IF ~i.manifest.readable THEN FALSE
  ELSE LET current_api_version == i.manifest.version
           lower == IF current_api_version.word \in {"HEAD", "Head"} THEN "head"
                    ELSE IF current_api_version.word \in {"MASTER", "Master"} THEN "master"
                    ELSE current_api_version.word
       IN IF ~current_api_version.v /\ lower \in {"head", "master"} THEN FALSE
          ELSE IF current_api_version.word # "" THEN FALSE
          ELSE LooseLess(current_api_version.nums, ver)

\* migrations that run both whenever their version test holds
MigrationsBoth(i) ==
  (IF IsUpgrade(i) /\ CurrentVersionLessThan(i, <<0, 13, 6>>) THEN <<"_upgrade_to_013">> ELSE <<>>)
  \o (IF IsUpgrade(i) /\ CurrentVersionLessThan(i, <<0, 13, 16>>) THEN <<"_convert_tank_bat">> ELSE <<>>)

\* lines 662-673 of upgrade_tank: the migrations that are run, in order
Migrations(i) ==
  LET did_013_upgrade == IsUpgrade(i) /\ CurrentVersionLessThan(i, <<0, 13, 6>>)
  IN (IF did_013_upgrade THEN <<"_upgrade_to_013">> ELSE <<>>)
     \o (IF IsUpgrade(i) /\ CurrentVersionLessThan(i, <<0, 13, 16>>) /\ ~did_013_upgrade
           THEN <<"_convert_tank_bat">> ELSE <<>>)

\* a _copy_folder that reports a file before it copies it
RECURSIVE CopyFolderReportAll(_, _, _, _)
CopyFolderReportAll(tree, src, copy_fail, dir_fail) ==
  IF src \in dir_fail THEN [raised |-> TRUE, files |-> {}, written |-> {}]
  ELSE LET under == {f \in tree : Len(f) > Len(src) /\ SubSeq(f, 1, Len(src)) = src}
           names == {f[Len(src) + 1] : f \in under} \ {".svn", ".git", ".gitignore", "__MACOSX", ".DS_Store"}
           sub(name) == CopyFolderReportAll(tree, Append(src, name), copy_fail, dir_fail)
           isdir(name) == Append(src, name) \notin tree
       IN [raised |-> FALSE,
           files |-> UNION {IF isdir(name) THEN sub(name).files ELSE {Append(src, name)} : name \in names},
           written |-> UNION {IF isdir(name) THEN sub(name).written
                              ELSE {Append(src, name)} \ copy_fail : name \in names}]

\* _copy_folder(log, src, dst) on the files of tree: copy_fail holds the
\* files whose shutil.copy raises, dir_fail the folders whose os.mkdir or
\* os.listdir raises.  files is the list that is returned, written the
\* files that arrived in dst; an error of a sub folder is logged by the
\* folder above it, and so is a failing chmod of a script.
RECURSIVE CopyFolder(_, _, _, _)
CopyFolder(tree, src, copy_fail, dir_fail) ==
  IF src \in dir_fail THEN [raised |-> TRUE, files |-> {}, written |-> {}]
  ELSE LET under == {f \in tree : Len(f) > Len(src) /\ SubSeq(f, 1, Len(src)) = src}
           names == {f[Len(src) + 1] : f \in under} \ {".svn", ".git", ".gitignore", "__MACOSX", ".DS_Store"}
           sub(name) == CopyFolder(tree, Append(src, name), copy_fail, dir_fail)
           isdir(name) == Append(src, name) \notin tree
       IN [raised |-> FALSE,
           files |-> UNION {IF isdir(name) THEN sub(name).files
                            ELSE {Append(src, name)} \ copy_fail : name \in names},
           written |-> UNION {IF isdir(name) THEN sub(name).written
                              ELSE {Append(src, name)} \ copy_fail : name \in names}]

\* the files next to the upgrade script and the manifest among them
Payload == {<<"info.yml">>, <<"python", "tank.py">>, <<"setup.sh">>, <<".gitignore">>}
PayloadManifest == [readable |-> TRUE, version |-> [v |-> TRUE, word |-> "", nums |-> <<0, 13, 16>>]]

\* upgrade_tank: mig_ok says whether the migration that runs returns,
\* remove_fail holds the files whose os.remove raises, install_fail the
\* files of the payload whose copy raises
UpgradeTank(i, mig_ok, backup, remove_fail, payload) ==
  LET call_ == [NoUpgrade EXCEPT !.op = "upgrade_tank", !.migrations = Migrations(i),
                                 !.before = i.core, !.manifest = i.manifest]
      removed == backup.files \ remove_fail
  IN IF Migrations(i) # <<>> /\ ~mig_ok
       THEN [i EXCEPT !.last = [call_ EXCEPT !.raised = TRUE]]
     ELSE IF ~i.valid
       THEN [i EXCEPT !.last = call_]
     ELSE IF backup.raised
       THEN [i EXCEPT !.last = [call_ EXCEPT !.raised = TRUE]]
     ELSE [i EXCEPT !.core = (@ \ removed) \cup payload.written,
                    !.manifest = IF <<"info.yml">> \in payload.written THEN PayloadManifest
                                 ELSE IF <<"info.yml">> \in removed THEN NoManifest
                                 ELSE @,
                    !.backup = backup.written,
                    !.last = [call_ EXCEPT !.reported = backup.files, !.removed = removed,
                                           !.installed = TRUE]]

CoreFiles == {<<"info.yml">>, <<".gitignore">>, <<"python", "tank.py">>, <<"python", ".DS_Store">>}

Manifests ==
  {NoManifest}
  \cup {[readable |-> TRUE, version |-> [v |-> TRUE, word |-> "", nums |-> <<0, 13, patch>>]] : patch \in 0..MaxPatch}
  \cup {[readable |-> TRUE, version |-> [v |-> FALSE, word |-> "", nums |-> n]] : n \in {<<0, 13>>, <<0, 12, 20>>, <<1, 0>>}}
  \cup {[readable |-> TRUE, version |-> [v |-> FALSE, word |-> w, nums |-> <<>>]] : w \in {"HEAD", "master"}}

\* somebody sets up the install root before the upgrade script is run
PrepareInstall(core, manifest, valid) ==
  /\ (<<"info.yml">> \notin core) => manifest = NoManifest
  /\ install' = [core |-> core, manifest |-> manifest, valid |-> valid, backup |-> {}, last |-> NoUpgrade]
  /\ UNCHANGED <<tank, git, hooks, sg>>

CallUpgradeTank(mig_ok, copy_fail, dir_fail, remove_fail, install_fail) ==
  /\ install.last.op = "none"
  /\ install' = UpgradeTank(install, mig_ok, CopyFolder(install.core, <<>>, copy_fail, dir_fail),
                            remove_fail, CopyFolder(Payload, <<>>, install_fail, {}))
  /\ UNCHANGED <<tank, git, hooks, sg>>

NextInstall ==
  \/ \E core \in SUBSET CoreFiles : \E manifest \in Manifests : \E valid \in BOOLEAN :
       PrepareInstall(core, manifest, valid)
  \/ \E mig_ok \in BOOLEAN :
       \E copy_fail \in SUBSET install.core :
         \E dir_fail \in {{}, {<<>>}, {<<"python">>}} :
           \E remove_fail \in {{}} \cup {{f} : f \in install.core} :
             \E install_fail \in {{}, {<<"info.yml">>}} :
               CallUpgradeTank(mig_ok, copy_fail, dir_fail, remove_fail, install_fail)

SpecInstall == Init /\ [][NextInstall]_vars

(***************************************************************************)
(* Properties                                                              *)
(***************************************************************************)
\* the loaded templates whose pattern parses the path
ValidatingTemplates(path) ==
  {nm \in TemplateNames :
     /\ HasPrefix(path)
     /\ \E i \in DOMAIN TemplateDefs[nm] :
          MatchDef(TemplateDefs[nm][i], Rel(path))}

\* C1: template_from_path on a path that two or more loaded templates
\* validate raises an error that names every one of them, and returns none
\* of them.
C1_AmbiguityRaises ==
  (call.op = "template_from_path"
     /\ Cardinality(ValidatingTemplates(call.path)) >= 2)
  => /\ ret.raised
     /\ ret.named = ValidatingTemplates(call.path)
     /\ ret.template \notin ValidatingTemplates(call.path)

C1_Witness ==
  /\ call.op = "template_from_path"
  /\ Cardinality(ValidatingTemplates(call.path)) >= 3
  /\ ret.raised
  /\ Cardinality(ret.named) >= 3

\* C2: template_from_path returns None without an error when no loaded
\* template validates the path, and the one validating template when there
\* is exactly one.
C2_NoneOrTheOne ==
  call.op = "template_from_path"
  => /\ ValidatingTemplates(call.path) = {}
          => ~ret.raised /\ ret.template = "None"
     /\ Cardinality(ValidatingTemplates(call.path)) = 1
          => ~ret.raised /\ ValidatingTemplates(call.path) = {ret.template}

C2_Witness ==
  /\ call.op = "template_from_path"
  /\ ValidatingTemplates(call.path) = {"shot"}
  /\ ret.template = "shot"

\* C3: every path paths_from_template returns validates against the full
\* template, whatever the fields, the skip keys, the flag and the disk.
C3_NoFalsePositives ==
  call.op = "paths_from_template"
  => \A p \in ret.paths : call.template \in ValidatingTemplates(p)

\* a glob of the call matched a path on disk that is not returned
C3_Witness ==
  /\ call.op = "paths_from_template"
  /\ ret.paths # {}
  /\ \E i \in DOMAIN ret.steps :
       /\ ret.status[i] = "searched"
       /\ \E p \in disk : /\ FnMatch(ret.steps[i].glob.path, 1, p, 1)
                          /\ p \notin ret.paths

\* the key k occurs in the definition the glob was rendered from, and the
\* glob holds "*" wherever it occurs
StarredIn(nm, glob_str, k) ==
  LET rel == Rel(glob_str)
      def == CHOOSE d \in Range(TemplateDefs[nm]) : Len(d) = Len(rel)
  IN /\ \E i \in DOMAIN def : def[i] = K(k)
     /\ \A i \in DOMAIN def : def[i] = K(k) => rel[i] = WILDCARD

\* the key-sets of the last paths_from_template call a glob was built for
GlobBuilt(i) == ret.status[i] \in {"searched", "duplicate"}

\* the required keys the fields of the call leave out
OmittedRequired ==
  {k \in KeyNames :
     /\ k \notin DOMAIN call.fields
     /\ \A i \in DOMAIN TemplateDefs[call.template] :
          k \in KeysOfDef(TemplateDefs[call.template][i])}

\* C4: paths_from_template with fields that omit required keys raises no
\* missing-key error; the omitted keys are in the skip set and are "*" in
\* the glob of every key-set that contains them.
C4_MissingRequiredWildcarded ==
  call.op = "paths_from_template"
  => /\ "MissingRequiredKey" \notin ret.errs
     /\ OmittedRequired \subseteq ret.skip_keys
     /\ \A i \in DOMAIN ret.steps :
          GlobBuilt(i) =>
            \A k \in OmittedRequired \cap ret.steps[i].keys :
              StarredIn(call.template, ret.steps[i].glob.path, k)

C4_Witness ==
  /\ call.op = "paths_from_template"
  /\ OmittedRequired # {}
  /\ OmittedRequired \cap call.skip_keys.names = {}
  /\ ~ret.raised
  /\ ret.paths # {}

\* the paths on disk that the template of the call validates
FilesOfTemplate ==
  {p \in disk :
     /\ HasPrefix(p)
     /\ \E i \in DOMAIN TemplateDefs[call.template] :
          MatchDef(TemplateDefs[call.template][i], Rel(p))}

NonAbstract(f) == [k \in {x \in DOMAIN f : ~Keys[x].is_abstract} |-> f[k]]

\* at least two files, all with the same keys and the same non-abstract
\* values: they differ in the value of an abstract key only
DifferOnlyAbstract(nm, files) ==
  /\ Cardinality(files) >= 2
  /\ \A p, q \in files :
       /\ DOMAIN GetFields(Template(nm), p) = DOMAIN GetFields(Template(nm), q)
       /\ NonAbstract(GetFields(Template(nm), p))
            = NonAbstract(GetFields(Template(nm), q))

\* the path holds the abstract value of every abstract key of the
\* definition it is rendered from, and there is such a key
HasAbstractTokens(nm, path) ==
  LET rel == Rel(path)
      def == CHOOSE d \in Range(TemplateDefs[nm]) : Len(d) = Len(rel)
  IN /\ \E i \in DOMAIN def : def[i].k = "key" /\ Keys[def[i].v].is_abstract
     /\ \A i \in DOMAIN def :
          (def[i].k = "key" /\ Keys[def[i].v].is_abstract)
            => rel[i] = Keys[def[i].v].default

AbstractRequired(nm) ==
  \A i, j \in DOMAIN TemplateDefs[nm] :
    \A k \in KeysOfDef(TemplateDefs[nm][i]) :
      Keys[k].is_abstract => k \in KeysOfDef(TemplateDefs[nm][j])

\* the fields hold no abstract key and agree with the files
FieldsAgree(nm, fields, files) ==
  \A k \in DOMAIN fields :
    /\ ~Keys[k].is_abstract
    /\ \A p \in files :
         /\ k \in DOMAIN GetFields(Template(nm), p)
         /\ GetFields(Template(nm), p)[k] = fields[k]

\* no path on disk matches template.parent but the directory of the files
OnlyTheirDirectory(nm, files) ==
  \A p \in disk :
    Validate(Parent(Template(nm)), p) => p \in {DirOf(q) : q \in files}

C5_Case ==
  /\ call.op = "abstract_paths_from_template"
  /\ DifferOnlyAbstract(call.template, FilesOfTemplate)
  /\ AbstractRequired(call.template)
  /\ FieldsAgree(call.template, call.fields, FilesOfTemplate)
  /\ ret.level = "parent" => OnlyTheirDirectory(call.template, FilesOfTemplate)

Combination(defs, path) ==
  LET rel == Rel(path)
      def == CHOOSE d \in Range(defs) : Len(d) = Len(rel)
  IN [i \in DOMAIN def |->
        IF def[i].k = "key" /\ Keys[def[i].v].is_abstract THEN ""
        ELSE rel[i]]

\* what a search with the template itself finds on disk for the fields
FoundForTemplate ==
  PathsFromTemplate(Template(call.template), call.fields, NoSkip, FALSE,
                    disk).paths

SearchDefs ==
  IF ret.level = "parent" THEN Parent(Template(call.template)).defs
  ELSE TemplateDefs[call.template]

\* the part of a returned path that the search template describes
AtSearchLevel(q) == IF ret.level = "parent" THEN DirOf(q) ELSE q

ScenarioDisk(n) ==
  UNION {{FrameFile(m)} \cup Ancestors(FrameFile(m)) : m \in 1..n}

ScenarioPath ==
  Abs(<<"seq01", SEP, "shot010", SEP, "render", SEP,
        "shot010", ".", "%04d", ".", "exr">>)

ScenarioCall ==
  /\ call.op = "abstract_paths_from_template"
  /\ call.template = "render"
  /\ call.fields = NoFields
  /\ \E n \in 1..MaxFrame : disk = ScenarioDisk(n)

\* C7: with the frames of shot010 on disk and nothing else,
\* abstract_paths_from_template(render, {}) returns exactly the one path
\* .../shot010.%04d.exr: the final rendering succeeds without a frame.
C7_ScenarioResult ==
  ScenarioCall => ~ret.raised /\ ret.paths = {ScenarioPath}

C7_Witness ==
  /\ ScenarioCall
  /\ Cardinality(FilesOn(disk)) >= 2
  /\ ret.paths = {ScenarioPath}

\* the required abstract keys of the template of the call that the fields
\* leave out
OmittedAbstract == {k \in OmittedRequired : Keys[k].is_abstract}

DefaultedIn(nm, path, k) ==
  LET rel == Rel(path)
      def == CHOOSE d \in Range(TemplateDefs[nm]) : Len(d) = Len(rel)
  IN /\ \E i \in DOMAIN def : def[i] = K(k)
     /\ \A i \in DOMAIN def : def[i] = K(k) => rel[i] = Keys[k].default

C9_SkipKeysWildcarded ==
  call.op = "paths_from_template"
  => \A i \in DOMAIN ret.steps :
       GlobBuilt(i) =>
         \A k \in call.skip_keys.names \cap ret.steps[i].keys :
           StarredIn(call.template, ret.steps[i].glob.path, k)

\* a file is returned whose value for the skip key is not the one in fields
C9_Witness ==
  /\ call.op = "paths_from_template"
  /\ \E k \in call.skip_keys.names \cap DOMAIN call.fields :
       \E p \in ret.paths :
         /\ k \in DOMAIN GetFields(Template(call.template), p)
         /\ GetFields(Template(call.template), p)[k] # call.fields[k]

\* the keys of key-set i that are neither in the fields of the call nor
\* skip keys: its missing optional keys
StillMissing(i) ==
  KeysOfDef(TemplateDefs[call.template][i])
    \ ((DOMAIN call.fields) \cup ret.skip_keys)

\* C10: a key-set with missing optional keys gets no glob when
\* skip_missing_optional_keys is false; when it is true the key-set is
\* searched with each of those keys as "*".
C10_MissingOptionalKeys ==
  call.op = "paths_from_template"
  => \A i \in DOMAIN ret.steps :
       (StillMissing(i) # {} /\ ret.status[i] # "not reached")
       => IF call.skip_missing_optional_keys
            THEN /\ ret.status[i] # "skipped"
                 /\ GlobBuilt(i) =>
                      \A k \in StillMissing(i) :
                        StarredIn(call.template, ret.steps[i].glob.path, k)
            ELSE /\ ret.status[i] = "skipped"
                 /\ ~ret.steps[i].glob.ok

\* one call skips a key-set, another one finds a file through its wildcard
C10_Witness ==
  /\ call.op = "paths_from_template"
  /\ call.skip_missing_optional_keys
  /\ \E i \in DOMAIN ret.steps :
       /\ StillMissing(i) # {}
       /\ ret.status[i] = "searched"
       /\ Glob(disk, ret.steps[i].glob.path) \cap ret.paths # {}

\* the keys of the template of the call that some key-set leaves out
OptionalKeys ==
  {k \in KeysOfDef(TemplateDefs[call.template][1]) :
     \E i \in DOMAIN TemplateDefs[call.template] :
       k \notin KeysOfDef(TemplateDefs[call.template][i])}

\* the paths on disk that the template of the call parses and whose values
\* are those of the fields of the call, the skip keys left aside
MatchingButSkipped ==
  {p \in FilesOfTemplate :
     \A k \in (DOMAIN call.fields) \ call.skip_keys.names :
       /\ k \in DOMAIN GetFields(Template(call.template), p)
       /\ GetFields(Template(call.template), p)[k] = call.fields[k]}

\* C11: paths_from_template with an optional key in skip_keys returns the
\* matching paths that hold a value for the key as well as the matching
\* paths that hold none.
C11_OptionalSkipReturnsBoth ==
  (/\ call.op = "paths_from_template"
   /\ ~ret.raised
   /\ call.skip_keys.names \cap OptionalKeys # {})
  => MatchingButSkipped \subseteq ret.paths

\* C12: in one call of paths_from_template no two key-sets whose glob is
\* run have the same glob string, and every glob string that is built is
\* run for exactly one key-set.
C12_GlobOncePerString ==
  call.op = "paths_from_template"
  => /\ \A i, j \in DOMAIN ret.steps :
          (/\ ret.status[i] = "searched"
           /\ ret.status[j] = "searched"
           /\ ret.steps[i].glob.path = ret.steps[j].glob.path) => i = j
     /\ \A i \in DOMAIN ret.steps :
          GlobBuilt(i) =>
            Cardinality({j \in DOMAIN ret.steps :
                           /\ ret.status[j] = "searched"
                           /\ ret.steps[j].glob.path = ret.steps[i].glob.path})
              = 1

\* two key-sets of one call render to the same glob string, which finds a
\* file
C12_Witness ==
  /\ call.op = "paths_from_template"
  /\ ret.paths # {}
  /\ \E i, j \in DOMAIN ret.steps :
       /\ i < j
       /\ ret.status[i] = "searched"
       /\ ret.status[j] = "duplicate"
       /\ ret.steps[i].glob.path = ret.steps[j].glob.path

\* the skip keys of the call that are no keys of its template
UnknownSkipKeys ==
  call.skip_keys.names \ KeysOfDef(TemplateDefs[call.template][1])

\* C13 as claimed: paths_from_template raises ConfigurationError when
\* skip_keys names a key the template does not have, and runs no search.
C13_UnknownSkipKeyRaises ==
  (call.op = "paths_from_template" /\ UnknownSkipKeys # {})
  => /\ ret.raised
     /\ "ConfigurationError" \in ret.errs
     /\ \A i \in DOMAIN ret.status : ret.status[i] # "searched"

\* the same call without the unknown names in skip_keys
WithoutUnknown ==
  PathsFromTemplate(Template(call.template), call.fields,
                    [call.skip_keys EXCEPT
                       !.names = call.skip_keys.names \ UnknownSkipKeys],
                    call.skip_missing_optional_keys, disk)

\* C13 (amended): a name in skip_keys that is no key of the template is
\* ignored: no ConfigurationError is raised, and the call searches the
\* same globs and returns or raises what it does without that name.
C13_UnknownSkipKeyIgnored ==
  (call.op = "paths_from_template" /\ UnknownSkipKeys # {})
  => /\ "ConfigurationError" \notin ret.errs
     /\ ret.raised = WithoutUnknown.raised
     /\ ret.errs = WithoutUnknown.errs
     /\ ret.paths = WithoutUnknown.paths
     /\ ret.status = WithoutUnknown.status

C13_Witness ==
  /\ call.op = "paths_from_template"
  /\ UnknownSkipKeys # {}
  /\ ~ret.raised
  /\ ret.paths # {}

\* every value of the fields of the call that is not skipped is one its key
\* can render
FieldsRenderable ==
  \A k \in (DOMAIN call.fields) \ call.skip_keys.names :
    k \in KeyNames => StrFromValue(k, call.fields[k], FALSE) # ""

\* C14: paths_from_template, given field values their keys can render,
\* returns the empty list and raises nothing when no path on disk matches
\* the template with those values, also when key-sets were skipped as
\* infeasible.
C14_NoMatchIsEmpty ==
  (/\ call.op = "paths_from_template"
   /\ FieldsRenderable
   /\ MatchingButSkipped = {})
  => ~ret.raised /\ ret.errs = {} /\ ret.paths = {}

\* the template has files on disk, a key-set was skipped, nothing matches
C14_Witness ==
  /\ call.op = "paths_from_template"
  /\ FilesOfTemplate # {}
  /\ MatchingButSkipped = {}
  /\ \E i \in DOMAIN ret.status : ret.status[i] = "skipped"
  /\ ~ret.raised
  /\ ret.paths = {}

\* the keys of the template of the call that its parent does not have
LeafLevelKeys ==
  KeysOfDef(TemplateDefs[call.template][1])
    \ KeysOfDef(DirName(TemplateDefs[call.template][1]))

\* C15: abstract_paths_from_template searches at template.parent exactly
\* when every leaf-level key is abstract or has a value in fields, and at
\* the template otherwise.
C15_SearchLevel ==
  (call.op = "abstract_paths_from_template" /\ ret.searched)
  => /\ ret.level \in {"parent", "template"}
     /\ ret.level = "parent"
          <=> \A k \in LeafLevelKeys :
                Keys[k].is_abstract \/ k \in DOMAIN call.fields

\* a leaf-level key that is not abstract has its value in fields
C15_Witness ==
  /\ call.op = "abstract_paths_from_template"
  /\ ret.level = "parent"
  /\ \E k \in LeafLevelKeys : ~Keys[k].is_abstract
  /\ ret.paths # {}

\* the abstract keys are all in the definition the path was rendered from,
\* each as the value the fields of the call give it, or as its abstract
\* value when they give none
AbstractAsAsked(nm, fields, path) ==
  LET rel == Rel(path)
      def == CHOOSE d \in Range(TemplateDefs[nm]) : Len(d) = Len(rel)
  IN \A k \in {x \in KeysOfDef(TemplateDefs[nm][1]) : Keys[x].is_abstract} :
       /\ k \in KeysOfDef(def)
       /\ \A i \in DOMAIN def :
            def[i] = K(k) =>
              rel[i] = IF k \in DOMAIN fields
                         THEN StrFromValue(k, fields[k], FALSE)
                         ELSE Keys[k].default

\* C16: every path abstract_paths_from_template returns holds, for each
\* abstract key of the template, the value fields supplies for it, and the
\* abstract value of the key when fields supplies none, at both levels of
\* search.
C16_AbstractUnlessSupplied ==
  (call.op = "abstract_paths_from_template" /\ ~ret.raised)
  => \A q \in ret.paths : AbstractAsAsked(call.template, call.fields, q)

\* a search at the template whose files are rendered with the frame given
C16_Witness ==
  /\ call.op = "abstract_paths_from_template"
  /\ ret.level = "template"
  /\ \E k \in DOMAIN call.fields : Keys[k].is_abstract
  /\ ret.paths # {}

WithFreshList ==
  PathsFromTemplate(Template(call.template), call.fields,
                    SkipList(skip_list.put),
                    call.skip_missing_optional_keys, disk)

\* C18: a paths_from_template call given a skip_keys list object that
\* earlier calls were given too returns what a call given a fresh list with
\* the names the caller put in it returns.
C18_NoCrossCallState ==
  (call.op = "paths_from_template" /\ skip_list.made)
  => /\ ret.raised = WithFreshList.raised
     /\ ret.paths = WithFreshList.paths

\* C19: reload_templates raises TankError and leaves self.templates as it
\* was when reading the templates fails; self.templates is replaced, by
\* the templates read, only when the read succeeds.
C19_ReloadPreserves ==
  call.op = "reload_templates"
  => /\ ret.raised <=> ~config.readable
     /\ ret.raised => ret.errs = {"TankError"} /\ templates = call.before
     /\ ~ret.raised => templates = config.names
     /\ templates # call.before => ~ret.raised

\* a failed reload after an earlier reload had replaced the templates
C19_Witness ==
  /\ call.op = "reload_templates"
  /\ ret.raised
  /\ templates = call.before
  /\ templates # TemplateNames
  /\ templates # {}

\* the paths the search of the call found that its search template parses
\* with a key-set that leaves out one of its abstract keys
FoundWithoutAbstract ==
  {f \in ret.found :
     \E k \in KeysOfDef(SearchDefs[1]) :
       /\ Keys[k].is_abstract
       /\ k \notin DOMAIN GetFields([name |-> "search", defs |-> SearchDefs],
                                    f)}

\* C20: abstract_paths_from_template removes the value of every abstract
\* key of the search template for every path its search found and ends
\* without an error of that step, also when a found path was parsed with a
\* key-set that leaves out an optional abstract key.
C20_NullingCompletes ==
  (call.op = "abstract_paths_from_template" /\ ret.searched)
  => /\ "KeyError" \notin ret.errs
     /\ FoundWithoutAbstract # {} => ~ret.raised

\* the template of the call has no directory level above it
RootLevel == SEP \notin {x.v : x \in Range(TemplateDefs[call.template][1])}

\* C28: abstract_paths_from_template with a root-level template raises
\* while it computes the leaf keys: no search is run, no path is returned,
\* and the template itself is not searched instead.
C28_RootLevelFails ==
  (call.op = "abstract_paths_from_template" /\ RootLevel)
  => /\ ret.raised
     /\ ret.errs = {"AttributeError"}
     /\ ~ret.searched
     /\ ret.found = {}
     /\ ret.paths = {}

\* the disk holds a path that a search at the template would have found
C28_Witness ==
  /\ call.op = "abstract_paths_from_template"
  /\ RootLevel
  /\ ret.raised
  /\ FoundForTemplate # {}

\* C21: _pull_latest raises the error about local modifications exactly
\* when git diff names a modified file; with no modified file it runs
\* git pull.
C21_AbortsOnlyWhenModified ==
  (git.last.op = "_pull_latest" /\ git.cloned)
  => /\ (git.last.err = "TankError: local modifications") <=> (git.modified # {})
     /\ git.modified = {} => git.last.ran_pull

\* C22: for a descriptor with version latest, find_latest_version returns
\* needs_update and the short hash of the branch head when the branch
\* head differs from the revision of the local install, and the unchanged
\* descriptor when they are the same.
C22_LatestComparedWithInstall ==
  (/\ git.last.op = "find_latest_version"
   /\ ~git.last.raised
   /\ git.last.before.version = LATEST
   /\ git.cloned)
  => IF git.remote_head # git.local_head
       THEN git.last.returned = [version |-> SubSeq(Hash(git.remote_head), 1, ShortLen), needs_update |-> TRUE]
     ELSE git.last.returned = [version |-> LATEST, needs_update |-> FALSE]

\* C23: the loader is asked for a hook path only when no load of that path
\* returned since the cache was last cleared, so no path is loaded twice
\* between two clears; a load that raises leaves the cache as it was; an
\* execute_hook call whose class was found builds an instance that no
\* earlier call built, bound to the parent of this call.
C23_HookCache ==
  /\ \A i, j \in DOMAIN hooks.loads : hooks.loads[i] = hooks.loads[j] => i = j
  /\ hooks.last.op = "execute_hook"
     => /\ hooks.last.called_load => hooks.last.hook_path \notin hooks.last.loaded_before
        /\ hooks.last.err = "load_plugin" => hooks.cache = hooks.last.cache_before
        /\ hooks.last.err # "load_plugin"
           => /\ hooks.last.instance.id > hooks.last.made_before
              /\ hooks.last.instance.parent = hooks.last.parent
              /\ hooks.last.instance.class = hooks.last.hook_path

\* a hook runs from the cache, for the second time since the cache was
\* cleared and for another parent than the call that loaded it
C23_Witness ==
  /\ hooks.last.op = "execute_hook"
  /\ ~hooks.last.called_load
  /\ hooks.last.hook_path \in hooks.last.loaded_before
  /\ hooks.last.parent = "app"
  /\ hooks.last.instance.id = MaxInstances
  /\ hooks.broken = {hooks.last.hook_path}

\* C24: for one Tank instance at most one connection is made and all
\* reads of Tank.shotgun return the same handle, also when threads read
\* at the same time.
C24_OneConnection ==
  /\ sg.created <= 1
  /\ Cardinality(sg.returned) <= 1

\* C25: upgrade_tank removes from the core folder only files that
\* _copy_folder reported and that arrived in the new backup folder; a file
\* of the core that is not in the backup folder is still in the core folder
\* after the call.
C25_OnlyBackedUpRemoved ==
  install.last.op = "upgrade_tank"
  => /\ install.last.removed \subseteq install.last.reported
     /\ install.last.removed \subseteq install.backup
     /\ \A f \in install.last.before \ install.backup : f \in install.core

\* an upgrade removed a file while the copy of another file failed and a
\* system file was skipped
C25_Witness ==
  /\ install.last.op = "upgrade_tank"
  /\ install.last.removed # {}
  /\ <<"python", "tank.py">> \in install.last.before \ install.backup
  /\ <<".gitignore">> \in install.last.before
  /\ <<"info.yml">> \in install.last.removed

\* the version of the manifest as one number, a missing component being 0
Weight(nums) ==
  (IF Len(nums) >= 1 THEN nums[1] * 10000 ELSE 0)
  + (IF Len(nums) >= 2 THEN nums[2] * 100 ELSE 0)
  + (IF Len(nums) >= 3 THEN nums[3] ELSE 0)

\* the manifest of the install before the upgrade names a version of
\* numbers
NumberedInstall ==
  /\ <<"info.yml">> \in install.last.before
  /\ install.last.manifest.readable
  /\ install.last.manifest.version.word = ""

\* C26: one run of upgrade_tank runs at most one migration: none for a
\* first install, an unreadable manifest, head or master, or a version of
\* at least v0.13.16; _upgrade_to_013 alone below v0.13.6;
\* _convert_tank_bat alone from v0.13.6 to below v0.13.16.
C26_AtMostOneMigration ==
  install.last.op = "upgrade_tank"
  => /\ Len(install.last.migrations) <= 1
     /\ ~NumberedInstall => install.last.migrations = <<>>
     /\ NumberedInstall
        => LET w == Weight(install.last.manifest.version.nums)
           IN /\ w < 1306 => install.last.migrations = <<"_upgrade_to_013">>
              /\ (w >= 1306 /\ w < 1316) => install.last.migrations = <<"_convert_tank_bat">>
              /\ w >= 1316 => install.last.migrations = <<>>

\* an upgrade from a version below v0.13.6 ran the first migration only
C26_Witness ==
  /\ install.last.op = "upgrade_tank"
  /\ NumberedInstall
  /\ Weight(install.last.manifest.version.nums) = 1305
  /\ install.last.migrations = <<"_upgrade_to_013">>
  /\ install.last.installed

\* C27: after download_local on a descriptor that needs an update the
\* version is the one from before the call, whether the call raised or
\* not, and needs_update is off only when git pull ran and succeeded.
C27_VersionRestored ==
  (git.last.op = "download_local" /\ git.last.before.needs_update)
  => /\ git.version = git.last.before.version
     /\ ~git.needs_update => (git.last.ran_pull /\ ~git.last.raised)

\* C29: paths_from_template leaves the skip_keys list of the caller with
\* the entries it held before the call, also when the call raises.
C29_ArgumentsUnchanged ==
  (call.op = "paths_from_template" /\ call.skip_keys.kind = "list")
  => ret.list_after = call.skip_keys.names

====
